---------------------------- MODULE Spec2Model ----------------------------
(* OCR gateway of flexbone_task: extract_text / batch_extract_text          *)
(* (src/apis/ocr.py) over the TTL result cache and the helpers of           *)
(* src/utils.py.  Time is counted in whole seconds; a confidence is written *)
(* in units of 0.00001 and is the float nearest to that decimal; text is a  *)
(* sequence of character codes.                                             *)
EXTENDS Integers, Sequences, FiniteSets, TLC

(***************************************************************************)
(* Bounds of the model                                                     *)
(***************************************************************************)
\* cache capacity, scaled down from TTLCache(maxsize=1000) of src/utils.py:120
maxsize == 2
\* number of distinct image contents; the last one is larger than MAX_FILE_SIZE
NumContents == 4
\* the clock advances MaxTicks times, by half a TTL each time
MaxTicks == 2
\* total number of extract_text invocations in one behaviour
MaxRequests == 3
\* longest list of images of one batch request
MaxBatch == 2
\* longest text, and largest number of words, of the documents that the
\* confidence scorer is applied to on its own
MaxTextLen == 3
MaxWords == 3

(***************************************************************************)
(* Program constants                                                       *)
(***************************************************************************)
ttl == 3600
TimeStep == ttl \div 2
MaxClock == MaxTicks * TimeStep
MAX_FILE_SIZE == 10 * 1024 * 1024
SUPPORTED_CONTENT_TYPES == {"image/jpeg", "image/jpg", "image/png", "image/gif"}

\* "No text found in the image."
NoTextMessage ==
    << 78, 111, 32, 116, 101, 120, 116, 32, 102, 111, 117, 110, 100, 32, 105,
       110, 32, 116, 104, 101, 32, 105, 109, 97, 103, 101, 46 >>

(***************************************************************************)
(* Inputs                                                                  *)
(***************************************************************************)
Contents == 1 .. NumContents
ContentLength(b) == IF b = NumContents THEN MAX_FILE_SIZE + 1
                    ELSE IF b = 1 THEN MAX_FILE_SIZE ELSE 1024 * b

\* the uploads a client sends: contents, declared content type, file name
Uploads ==
    [bytes : Contents, content_type : {"image/png"}, filename : {"a.png"}]
    \cup { [bytes |-> 1, content_type |-> "application/pdf", filename |-> "c.pdf"] }

\* what document_text_detection answers: a document (text, the confidences
\* of its words in reading order, NoConfidence for a word without one), with
\* an engine error message, or an exception raised by the call.  The engine
\* reads the same document from the same bytes; its failures are transient.
Document(b) ==
    IF b = 2 THEN [text |-> <<>>, words |-> <<>>, error |-> FALSE, raises |-> FALSE]
    ELSE IF b = 3 THEN [text |-> <<10, 233>>, words |-> <<50000>>, error |-> FALSE,
                        raises |-> FALSE]
    ELSE [text |-> <<72, 105>>, words |-> <<90000, 90000>>, error |-> FALSE,
          raises |-> FALSE]

EngineError == [text |-> <<>>, words |-> <<>>, error |-> TRUE, raises |-> FALSE]

Raised == [text |-> <<>>, words |-> <<>>, error |-> FALSE, raises |-> TRUE]

OCRAnswers(b) == { Document(b), EngineError, Raised }

\* the documents the confidence scorer is applied to on its own: texts of
\* "H", "#" and " " up to MaxTextLen characters, "Hi", twenty letters, a text
\* of ten characters of which three are symbols, and "Hi" between two wide
\* spaces; up to MaxWords words without a confidence or with one of 0.0 and
\* 0.8, the word lists [1.0], [1.0, 1.0, 1.0], [0.9, 0.9] and [0.8, 0.9, 1.0],
\* and the single words 0.14293 and 0.30143, whose halves lie midway between
\* two decimals of five places
Seqs(S, n) == UNION { [1 .. m -> S] : m \in 0 .. n }

\* a word of the document that carries no confidence
NoConfidence == 0 - 1

TwentyLetters == [ i \in 1 .. 20 |-> 97 ]

TenWithSymbols == << 97, 98, 35, 99, 100, 35, 101, 102, 35, 103 >>

\* "Hi" after an ideographic space (U+3000) and before an em space (U+2003)
WideSpaced == << 12288, 72, 105, 8195 >>

Texts == Seqs({72, 35, 32}, MaxTextLen)
             \cup { << 72, 105 >>, TwentyLetters, TenWithSymbols, WideSpaced }

WordLists == Seqs({NoConfidence, 0, 80000}, MaxWords)
                 \cup { << 100000 >>, << 100000, 100000, 100000 >>,
                        << 90000, 90000 >>, << 80000, 90000, 100000 >>,
                        << 14293 >>, << 30143 >> }

Documents == [ text : Texts, words : WordLists ]

NoDocument == [ text |-> <<>>, words |-> <<>> ]

Singles == {"s1"}
Batch == "b"
Procs == Singles \cup {Batch}

VARIABLES
    now,            \* the clock (time.time, time.monotonic, datetime.now)
    vision_client,  \* TRUE when ImageAnnotatorClient() was constructed
    ocr_cache,      \* the entries of the TTLCache, least recently used first
    pc,             \* position of each coroutine: idle, reading its upload,
                    \* ocr (inside document_text_detection), or done with its
                    \* response to send
    image,          \* the upload each coroutine is working on
    start_time,     \* start_time of the running extract_text call
    out,            \* outcome of the extract_text call each coroutine ended:
                    \* status, body or detail, and the steps it took in order
    images,         \* the images of the batch request
    idx,            \* index of the image the batch loop is at
    results,        \* the results list of the batch request
    yields,         \* outcomes of the extract_text calls of the batch, in order
    served,         \* for each key of the cache, the body returned by the
                    \* call that stored its entry
    budget,         \* extract_text invocations left
    stats,          \* the dict get_cache_stats returned, until it is sent
    annotation,     \* the document get_confidence_score is applied to
    scores,         \* the values get_confidence_score returned for it, in
                    \* the order of the calls
    cache_call,     \* the last direct call of get_cached_result or
                    \* cache_result: its name, key, and what it found or evicted
    recency         \* the keys in the cache, the one used longest ago first;
                    \* a use is a store or a hit of a direct call

gateway == << now, vision_client, ocr_cache, pc, image, start_time, out,
              images, idx, results, yields, served, budget, stats >>

scorer == << annotation, scores >>

direct == << cache_call, recency >>

vars == << gateway, scorer, direct >>

(***************************************************************************)
(* utils.py: text_cleanup                                                  *)
(***************************************************************************)
\* the characters that \s matches in a str pattern and that str.strip removes:
\* the Unicode whitespace, U+0009..U+000D, U+001C..U+0020, U+0085, U+00A0,
\* U+1680, U+2000..U+200A, U+2028, U+2029, U+202F, U+205F and U+3000
IsSpace(c) ==
    \/ c \in {9, 10, 11, 12, 13, 28, 29, 30, 31, 32, 133, 160}
    \/ c \in {5760, 8232, 8233, 8239, 8287, 12288}
    \/ (c >= 8192 /\ c <= 8202)

IsPrintable(c) == c >= 32 /\ c <= 126

RECURSIVE LStrip(_)
LStrip(s) == IF s # <<>> /\ IsSpace(Head(s)) THEN LStrip(Tail(s)) ELSE s

RECURSIVE RStrip(_)
RStrip(s) == IF s # <<>> /\ IsSpace(s[Len(s)])
             THEN RStrip(SubSeq(s, 1, Len(s) - 1)) ELSE s

Strip(s) == RStrip(LStrip(s))

\* re.sub(r"\s+", " ", s)
RECURSIVE CollapseSpaces(_)
CollapseSpaces(s) ==
    IF s = <<>> THEN <<>>
    ELSE IF IsSpace(Head(s))
         THEN <<32>> \o CollapseSpaces(LStrip(s))
         ELSE <<Head(s)>> \o CollapseSpaces(Tail(s))

text_cleanup(text) ==
    LET cleaned == [i \in 1 .. Len(text) |->
                        IF IsPrintable(text[i]) THEN text[i] ELSE 32]
    IN  Strip(CollapseSpaces(cleaned))

(***************************************************************************)
(* utils.py: get_confidence_score                                          *)
(***************************************************************************)
\* characters outside [a-zA-Z0-9\s.,!?-]
IsNonAlpha(c) ==
    ~ (  (c >= 97 /\ c <= 122) \/ (c >= 65 /\ c <= 90) \/ (c >= 48 /\ c <= 57)
      \/ IsSpace(c) \/ c \in {46, 44, 33, 63, 45} )

(***************************************************************************)
(* Python floats (IEEE 754 binary64, round to nearest, ties to even).  A    *)
(* float that is not negative is the pair of a natural number m and an     *)
(* integer e and stands for m * 2^e; m is written in base Limb, the lowest *)
(* digit first, and has at most MantissaBits bits.  The scores stay far    *)
(* from the subnormal and the overflow range.                              *)
(***************************************************************************)
LimbBits == 15
Limb == 2 ^ LimbBits
MantissaBits == 53

RECURSIVE BigOf(_)
BigOf(n) == IF n = 0 THEN <<>> ELSE << n % Limb >> \o BigOf(n \div Limb)

RECURSIVE IntOf(_)
IntOf(a) == IF a = <<>> THEN 0 ELSE Head(a) + Limb * IntOf(Tail(a))

RECURSIVE Trim(_)
Trim(a) == IF a # <<>> /\ a[Len(a)] = 0
           THEN Trim(SubSeq(a, 1, Len(a) - 1)) ELSE a

RECURSIVE BigAddCarry(_, _, _)
BigAddCarry(a, b, carry) ==
    IF a = <<>> /\ b = <<>>
    THEN IF carry = 0 THEN <<>> ELSE << carry >>
    ELSE LET x == IF a = <<>> THEN 0 ELSE Head(a)
             y == IF b = <<>> THEN 0 ELSE Head(b)
             sum == x + y + carry
         IN  << sum % Limb >>
                 \o BigAddCarry(IF a = <<>> THEN <<>> ELSE Tail(a),
                                IF b = <<>> THEN <<>> ELSE Tail(b),
                                sum \div Limb)

BigAdd(a, b) == BigAddCarry(a, b, 0)

\* a - b for a >= b
RECURSIVE BigSubBorrow(_, _, _)
BigSubBorrow(a, b, borrow) ==
    IF a = <<>> THEN <<>>
    ELSE LET y == IF b = <<>> THEN 0 ELSE Head(b)
             d == Head(a) - y - borrow
         IN  << (d + Limb) % Limb >>
                 \o BigSubBorrow(Tail(a), IF b = <<>> THEN <<>> ELSE Tail(b),
                                 IF d < 0 THEN 1 ELSE 0)

BigSub(a, b) == Trim(BigSubBorrow(a, b, 0))

\* a * d for a digit d
RECURSIVE BigMulDigit(_, _, _)
BigMulDigit(a, d, carry) ==
    IF a = <<>>
    THEN IF carry = 0 THEN <<>> ELSE << carry >>
    ELSE LET prod == Head(a) * d + carry
         IN  << prod % Limb >> \o BigMulDigit(Tail(a), d, prod \div Limb)

BigMulSmall(a, d) == IF d = 0 THEN <<>> ELSE BigMulDigit(a, d, 0)

\* a * Limb^n
ShiftLimbs(a, n) == IF a = <<>> THEN <<>> ELSE [ i \in 1 .. n |-> 0 ] \o a

RECURSIVE BigMul(_, _)
BigMul(a, b) ==
    IF b = <<>> THEN <<>>
    ELSE BigAdd(BigMulSmall(a, Head(b)), ShiftLimbs(BigMul(a, Tail(b)), 1))

\* quotient and remainder of a by d, for 0 < d <= Limb
RECURSIVE BigDivSmall(_, _)
BigDivSmall(a, d) ==
    IF a = <<>> THEN [ q |-> <<>>, r |-> 0 ]
    ELSE LET high == BigDivSmall(Tail(a), d)
             cur == high.r * Limb + Head(a)
         IN  [ q |-> IF cur \div d = 0 /\ high.q = <<>> THEN <<>>
                     ELSE << cur \div d >> \o high.q,
               r |-> cur % d ]

RECURSIVE IntBitLen(_)
IntBitLen(n) == IF n = 0 THEN 0 ELSE 1 + IntBitLen(n \div 2)

BigBitLen(a) ==
    IF a = <<>> THEN 0 ELSE LimbBits * (Len(a) - 1) + IntBitLen(a[Len(a)])

\* -1, 0 or 1 as a is less than, equal to or greater than b
BigCmp(a, b) ==
    IF Len(a) # Len(b) THEN (IF Len(a) < Len(b) THEN 0 - 1 ELSE 1)
    ELSE LET diff == { i \in 1 .. Len(a) : a[i] # b[i] }
         IN  IF diff = {} THEN 0
             ELSE LET top == CHOOSE i \in diff : \A k \in diff : k <= i
                  IN  IF a[top] < b[top] THEN 0 - 1 ELSE 1

\* a * 2^n
BigShl(a, n) == ShiftLimbs(BigMulSmall(a, 2 ^ (n % LimbBits)), n \div LimbBits)

\* a \div 2^n, and whether a bit that is 1 was dropped
BigShr(a, n) ==
    LET k == IF n \div LimbBits < Len(a) THEN n \div LimbBits ELSE Len(a)
        d == BigDivSmall(SubSeq(a, k + 1, Len(a)), 2 ^ (n % LimbBits))
    IN  [ q |-> IF n \div LimbBits < Len(a) THEN d.q ELSE <<>>,
          sticky |-> \/ \E i \in 1 .. k : a[i] # 0
                     \/ (n \div LimbBits < Len(a) /\ d.r # 0) ]

IsOdd(a) == a # <<>> /\ Head(a) % 2 = 1

\* a * 2^(-n) rounded to the nearest natural number, ties to even, n > 0
BigRoundShr(a, n) ==
    LET kept == BigShr(a, n - 1)
        q == BigDivSmall(kept.q, 2).q
    IN  IF IsOdd(kept.q) /\ (kept.sticky \/ IsOdd(q)) THEN BigAdd(q, << 1 >>)
        ELSE q

\* the float nearest to m * 2^e
RoundToFloat(m, e) ==
    LET excess == BigBitLen(m) - MantissaBits
    IN  IF excess <= 0 THEN [ m |-> m, e |-> e ]
        ELSE [ m |-> BigRoundShr(m, excess), e |-> e + excess ]

FloatZero == [ m |-> <<>>, e |-> 0 ]
FloatOne == [ m |-> << 1 >>, e |-> 0 ]
FloatHalf == [ m |-> << 1 >>, e |-> 0 - 1 ]

\* x == 0.0, the test of "if x"
IsZero(x) == x.m = <<>>

\* float(n) of an int n >= 0
FloatOfInt(n) == [ m |-> BigOf(n), e |-> 0 ]

Smaller(i, k) == IF i < k THEN i ELSE k

\* x + y
FAdd(x, y) ==
    LET e == Smaller(x.e, y.e)
    IN  RoundToFloat(BigAdd(BigShl(x.m, x.e - e), BigShl(y.m, y.e - e)), e)

\* x - y for x >= y
FSub(x, y) ==
    LET e == Smaller(x.e, y.e)
    IN  RoundToFloat(BigSub(BigShl(x.m, x.e - e), BigShl(y.m, y.e - e)), e)

\* x * y
FMul(x, y) == RoundToFloat(BigMul(x.m, y.m), x.e + y.e)

\* x / d for an int d, 0 < d < Limb: the quotient of m * Limb^5 by d has more
\* than MantissaBits + 2 bits; a last bit records a remainder that is not 0
FDivInt(x, d) ==
    LET qr == BigDivSmall(ShiftLimbs(x.m, 5), d)
        m == BigAdd(BigMulSmall(qr.q, 2), IF qr.r # 0 THEN << 1 >> ELSE <<>>)
    IN  RoundToFloat(m, x.e - 5 * LimbBits - 1)

\* x > y
FGreater(x, y) ==
    LET e == Smaller(x.e, y.e)
    IN  BigCmp(BigShl(x.m, x.e - e), BigShl(y.m, y.e - e)) = 1

FMin(x, y) == IF FGreater(x, y) THEN y ELSE x

FMax(x, y) == IF FGreater(y, x) THEN y ELSE x

\* the float of a quantity of c units of 0.00001: the float nearest to
\* c / 100000, and 100000 = 3125 * 2^5
FloatOfUnits(c) == FDivInt([ m |-> BigOf(c), e |-> 0 - 5 ], 3125)

\* round(x, 5), in units of 0.00001: the decimal of five places nearest to
\* the float, ties to even
Round5(x) ==
    LET m == BigMulSmall(x.m, 3125)
        e == x.e + 5
    IN  IF e >= 0 THEN IntOf(BigShl(m, e)) ELSE IntOf(BigRoundShr(m, 0 - e))

\* sum(s) of a list of floats: the floats are added to 0 from left to right
RECURSIVE FSum(_)
FSum(s) ==
    IF s = <<>> THEN FloatZero
    ELSE LET before == FSum(SubSeq(s, 1, Len(s) - 1))
         IN  IF IsZero(before) THEN s[Len(s)] ELSE FAdd(before, s[Len(s)])

\* word.confidence: the float the engine reported, in units of 0.00001; 0.0
\* when it reported none
ConfidenceOf(word) == IF word = NoConfidence THEN 0 ELSE word

\* mutant of get_confidence_score: no penalty for a short text
get_confidence_scoreNoShortPenalty(document) ==
    LET extracted_text == IF document.text # <<>> THEN Strip(document.text) ELSE <<>>
        confidences == [ i \in 1 .. Len(document.words) |->
                             FloatOfUnits(ConfidenceOf(document.words[i])) ]
        word_confidences == SelectSeq(confidences, LAMBDA c : ~ IsZero(c))
        mean == IF word_confidences # <<>>
                THEN FDivInt(FSum(word_confidences), Len(word_confidences))
                ELSE FloatZero
        textLen == IF Len(extracted_text) > 1 THEN Len(extracted_text) ELSE 1
        non_alpha_ratio ==
            FDivInt(FloatOfInt(Len(SelectSeq(extracted_text, IsNonAlpha))), textLen)
        confidence == FMul(mean, FSub(FloatOne, non_alpha_ratio))
    IN  Round5(FMax(FloatZero, FMin(FloatOne, confidence)))

\* mutant of get_confidence_score: the word confidences are summed, not
\* averaged, and the result is not clamped
get_confidence_scoreSumUnclamped(document) ==
    LET extracted_text == IF document.text # <<>> THEN Strip(document.text) ELSE <<>>
        confidences == [ i \in 1 .. Len(document.words) |->
                             FloatOfUnits(ConfidenceOf(document.words[i])) ]
        word_confidences == SelectSeq(confidences, LAMBDA c : ~ IsZero(c))
        total == FSum(word_confidences)
        short == IF Len(extracted_text) < 10 THEN FMul(total, FloatHalf) ELSE total
        textLen == IF Len(extracted_text) > 1 THEN Len(extracted_text) ELSE 1
        non_alpha_ratio ==
            FDivInt(FloatOfInt(Len(SelectSeq(extracted_text, IsNonAlpha))), textLen)
    IN  Round5(FMul(short, FSub(FloatOne, non_alpha_ratio)))

\* lines 38-62.  sum() adds the floats from left to right, each sum rounded
\* (CPython up to 3.11; from 3.12 on sum() compensates the rounding errors)
get_confidence_score(document) ==
    LET extracted_text == IF document.text # <<>> THEN Strip(document.text) ELSE <<>>
        confidences == [ i \in 1 .. Len(document.words) |->
                             FloatOfUnits(ConfidenceOf(document.words[i])) ]
        word_confidences == SelectSeq(confidences, LAMBDA c : ~ IsZero(c))
        mean == IF word_confidences # <<>>
                THEN FDivInt(FSum(word_confidences), Len(word_confidences))
                ELSE FloatZero
        short == IF Len(extracted_text) < 10 THEN FMul(mean, FloatHalf) ELSE mean
        textLen == IF Len(extracted_text) > 1 THEN Len(extracted_text) ELSE 1
        non_alpha_ratio ==
            FDivInt(FloatOfInt(Len(SelectSeq(extracted_text, IsNonAlpha))), textLen)
        confidence == FMul(short, FSub(FloatOne, non_alpha_ratio))
    IN  Round5(FMax(FloatZero, FMin(FloatOne, confidence)))

(***************************************************************************)
(* utils.py: get_image_metadata, generate_image_hash                       *)
(***************************************************************************)
\* lines 82-110: Image.open(io.BytesIO(contents)) and _getexif() return for
\* the contents that Pillow can decode and raise for the others; the content
\* type that the client declared does not enter
Decodable(contents) == contents # 3

\* the dict of lines 112-116, where image_info and exif_info are what Pillow
\* reads from the contents; or, when Pillow raised, the str of line 110, held
\* in the one field of a record: the message and the exception, which is
\* that of the contents
get_image_metadata(filename, content_type, contents) ==
    LET file_size == ContentLength(contents)
        basic_metadata == [ filename |-> filename, content_type |-> content_type,
                            size_bytes |-> file_size ]
    IN  IF Decodable(contents)
        THEN [ file_info |-> [ basic_metadata EXCEPT !.size_bytes = file_size ],
               image_info |-> << "image_info", contents >>,
               exif_info |-> << "exif_info", contents >> ]
        ELSE [ str |-> << "Invalid image file. Could not process with Pillow. Error: ",
                          contents >> ]

generate_image_hash(contents) == << "sha256", contents >>

(***************************************************************************)
(* utils.py: ocr_cache = TTLCache(maxsize, ttl), get_cached_result,        *)
(* cache_result, get_cache_stats                                           *)
(***************************************************************************)
\* mutant of Expired: the entry is still served at the instant its TTL elapses
ExpiredAfter(e, t) == t > e.expires

\* an entry is expired when not (timer() < link.expires)
Expired(e, t) == ~ (t < e.expires)

Position(cache, key) ==
    IF \E i \in 1 .. Len(cache) : cache[i].key = key
    THEN CHOOSE i \in 1 .. Len(cache) : cache[i].key = key
    ELSE 0

Remove(cache, i) == SubSeq(cache, 1, i - 1) \o SubSeq(cache, i + 1, Len(cache))

\* TTLCache.expire(time): drop every expired entry
Expire(cache, t) == SelectSeq(cache, LAMBDA e : ~ Expired(e, t))

\* mutant of Lookup: the lookup never finds the key
LookupNever(cache, key, t) == "miss"

\* Cache.get -> TTLCache.__contains__: "miss" (no link), "expired", or "hit"
Lookup(cache, key, t) ==
    LET i == Position(cache, key)
    IN  IF i = 0 THEN "miss"
        ELSE IF Expired(cache[i], t) THEN "expired"
        ELSE "hit"

\* mutant of Touch: a hit restarts the TTL of the entry (sliding expiry)
TouchRefreshes(cache, key) ==
    LET i == Position(cache, key)
    IN  Remove(cache, i) \o << [ cache[i] EXCEPT !.expires = now + ttl ] >>

\* mutant of Touch: a hit leaves the order of the links as it was
TouchKeepsPlace(cache, key) == cache

\* TTLCache.__getitem__ on a hit: the link moves to the end of __links
Touch(cache, key) ==
    LET i == Position(cache, key)
    IN  Remove(cache, i) \o << cache[i] >>

\* get_cached_result(image_hash): the stored dict, or None
get_cached_result(cache, image_hash, t) ==
    IF Lookup(cache, image_hash, t) = "hit"
    THEN [ found |-> TRUE, value |-> cache[Position(cache, image_hash)].value,
           cache |-> Touch(cache, image_hash) ]
    ELSE [ found |-> FALSE, cache |-> cache ]

\* mutant of MakeRoom: nothing is evicted when the cache is full
MakeRoomNever(cache) == cache

\* Cache.__setitem__: while currsize + 1 > maxsize: popitem() (oldest link)
RECURSIVE MakeRoom(_)
MakeRoom(cache) ==
    IF Len(cache) + 1 > maxsize THEN MakeRoom(Tail(cache)) ELSE cache

\* TTLCache.__setitem__(key, value) at time t
SetItem(cache, key, value, t) ==
    LET live == Expire(cache, t)
        i == Position(live, key)
        entry == [ key |-> key, value |-> value, expires |-> t + ttl ]
    IN  IF i = 0 THEN MakeRoom(live) \o << entry >>
        ELSE Remove(live, i) \o << entry >>

\* cache_result(image_hash, result)
cache_result(cache, image_hash, result, t) ==
    LET cached_data == [ success |-> result.success, text |-> result.text,
                         confidence |-> result.confidence,
                         processing_time_ms |-> result.processing_time_ms,
                         metadata |-> result.metadata,
                         cached_at |-> t, cache_hit |-> TRUE ]
    IN  SetItem(cache, image_hash, cached_data, t)

\* mutant of get_cache_stats: the entries are counted without the expiry
\* that len() runs first
get_cache_statsCountsAll(cache, t) ==
    [ stats |-> [ cache_size |-> Len(cache), max_size |-> maxsize,
                  ttl_seconds |-> ttl, cache_info |-> Len(cache) ],
      cache |-> cache ]

\* get_cache_stats(): len(ocr_cache) and ocr_cache.currsize run expire(time)
\* and count what is left; maxsize and ttl are the configured values
get_cache_stats(cache, t) ==
    LET live == Expire(cache, t)
    IN  [ stats |-> [ cache_size |-> Len(live), max_size |-> maxsize,
                      ttl_seconds |-> ttl, cache_info |-> Len(live) ],
          cache |-> live ]

Range(s) == { s[i] : i \in 1 .. Len(s) }

\* dict.pop(field, None)
Pop(dict, field) == [ f \in DOMAIN dict \ {field} |-> dict[f] ]

\* steps of cache_result that the log records
PutSteps(cache, key, t) ==
    LET live == Expire(cache, t)
    IN  (IF Len(live) < Len(cache) THEN << "expire" >> ELSE <<>>)
        \o (IF Position(live, key) = 0 /\ Len(live) + 1 > maxsize
            THEN << "popitem" >> ELSE <<>>)
        \o << "put" >>

(***************************************************************************)
(* apis/ocr.py: extract_text                                               *)
(***************************************************************************)
\* raise HTTPException(status_code, detail)
Failure(status, detail, log) ==
    [ status |-> status, detail |-> detail, log |-> log ]

\* return of a response dict (sent with status 200)
Success(body, log) == [ status |-> 200, body |-> body, log |-> log ]

\* mutant of TypeCheck: the content type is not checked
TypeCheckSkipped(upload) == TRUE

\* lines 54-59: the content type check made before the upload is read
TypeCheck(upload) == upload.content_type \in SUPPORTED_CONTENT_TYPES

\* lines 55-59: the outcome of a call that fails the content type check
Rejected(upload) ==
    Failure(415, << "unsupported", upload.content_type >>, << "type_bad" >>)

\* lines 66-72: a hit pops cache_hit from the stored dict and returns that dict
HitResponse(cached_result) == Pop(cached_result, "cache_hit")

\* the cache after a hit: the link was moved to the end by the lookup and
\* the stored dict is the object that the handler popped cache_hit from
StoreAfterHit(cache, image_hash, t) ==
    LET got == get_cached_result(cache, image_hash, t)
        n == Len(got.cache)
    IN  [ got.cache EXCEPT ![n].value = HitResponse(got.value) ]

\* mutant of AssembleResult: a document without text is reported as a success
AssembleResultAlwaysSuccess(texts, score, processing_time_ms, image_metadata) ==
    [ success |-> TRUE, text |-> text_cleanup(texts.text),
      confidence |-> score, processing_time_ms |-> processing_time_ms,
      metadata |-> image_metadata ]

\* lines 108-129: the result assembled from the OCR answer
AssembleResult(texts, score, processing_time_ms, image_metadata) ==
    IF texts.text # <<>>
    THEN [ success |-> TRUE, text |-> text_cleanup(texts.text),
           confidence |-> score, processing_time_ms |-> processing_time_ms,
           metadata |-> image_metadata ]
    ELSE [ success |-> FALSE, text |-> NoTextMessage,
           confidence |-> 0, processing_time_ms |-> processing_time_ms,
           metadata |-> image_metadata ]

\* mutant of Recognize: the result is cached before the engine error is checked
RecognizeCachesFirst(cache, image_hash, upload, start, t, ocr, log) ==
    IF ocr.raises
    THEN [ out |-> Failure(500, << "internal", "exception" >>,
                           log \o << "ocr", "exception" >>),
           cache |-> cache ]
    ELSE LET json_response ==
                 [ success |-> FALSE, text |-> NoTextMessage, confidence |-> 0,
                   processing_time_ms |-> (t - start) * 1000,
                   metadata |-> get_image_metadata(upload.filename,
                                    upload.content_type, upload.bytes) ]
         IN  [ out |-> IF ocr.error
                       THEN [ status |-> 500, body |-> json_response,
                              detail |-> << "internal", "vision_error" >>,
                              log |-> log \o << "ocr", "score", "put",
                                                "vision_error" >> ]
                       ELSE Success(json_response, log \o << "ocr", "score", "put" >>),
               cache |-> cache_result(cache, image_hash, json_response, t) ]

\* lines 91-142: the OCR call and what follows it; ocr is the answer of
\* document_text_detection and log the steps taken before the call
Recognize(cache, image_hash, upload, start, t, ocr, log) ==
    IF ocr.raises
    THEN [ out |-> Failure(500, << "internal", "exception" >>,
                           log \o << "ocr", "exception" >>),
           cache |-> cache ]
    ELSE IF ocr.error
    THEN [ out |-> Failure(500, << "internal", "vision_error" >>,
                           log \o << "ocr", "score", "vision_error" >>),
           cache |-> cache ]
    ELSE LET score == get_confidence_score(ocr)
             processing_time_ms == (t - start) * 1000
             image_metadata == get_image_metadata(upload.filename,
                                   upload.content_type, upload.bytes)
             json_response == AssembleResult(ocr, score, processing_time_ms,
                                             image_metadata)
         IN  [ out |-> Success(json_response,
                           log \o << "ocr", "score" >>
                               \o PutSteps(cache, image_hash, t)),
               cache |-> cache_result(cache, image_hash, json_response, t) ]

\* mutant of MissPath: the size of the upload is not checked
MissPathNoSizeCheck(cache, client, image_hash, upload, start, t, ocr, log) ==
    IF ~ client
    THEN [ out |-> Failure(503, << "unavailable" >>,
                           log \o << "metadata", "size_ok", "client_none" >>),
           cache |-> cache ]
    ELSE Recognize(cache, image_hash, upload, start, t, ocr,
                   log \o << "metadata", "size_ok", "client_ok" >>)

\* lines 76-89: the miss path up to the OCR call
MissPath(cache, client, image_hash, upload, start, t, ocr, log) ==
    IF ContentLength(upload.bytes) > MAX_FILE_SIZE
    THEN [ out |-> Failure(413, << "too_large" >>,
                           log \o << "metadata", "size_bad" >>),
           cache |-> cache ]
    ELSE IF ~ client
    THEN [ out |-> Failure(503, << "unavailable" >>,
                           log \o << "metadata", "size_ok", "client_none" >>),
           cache |-> cache ]
    ELSE Recognize(cache, image_hash, upload, start, t, ocr,
                   log \o << "metadata", "size_ok", "client_ok" >>)

\* lines 61-142: extract_text from the point where image.read() returned
AfterRead(cache, client, upload, start, t, ocr) ==
    LET image_hash == generate_image_hash(upload.bytes)
        found == Lookup(cache, image_hash, t)
        log == << "type_ok", "read", "hash", found >>
    IN  IF found = "hit"
        THEN [ out |-> Success(HitResponse(
                          get_cached_result(cache, image_hash, t).value), log),
               cache |-> StoreAfterHit(cache, image_hash, t) ]
        ELSE MissPath(cache, client, image_hash, upload, start, t, ocr, log)

\* lines 67-97: the call reaches document_text_detection: no hit, the size
\* within the limit and the client constructed
CallsOCR(cache, client, upload, t) ==
    /\ Lookup(cache, generate_image_hash(upload.bytes), t) # "hit"
    /\ ~ (ContentLength(upload.bytes) > MAX_FILE_SIZE)
    /\ client

(***************************************************************************)
(* apis/ocr.py: batch_extract_text                                         *)
(***************************************************************************)
\* lines 185-194: the record appended for an image whose call raised
FailureRecord(upload, http_exc) ==
    [ success |-> FALSE,
      text |-> << "Error processing image", upload.filename, http_exc.detail >>,
      confidence |-> 0, processing_time_ms |-> 0, metadata |-> <<>> ]

\* mutant of BatchAppend: an image whose call raised leaves no record
BatchAppendSuccesses(res, upload, o) ==
    IF o.status = 200 THEN Append(res, o.body) ELSE res

\* lines 182-194: what one iteration appends to results
BatchAppend(res, upload, o) ==
    Append(res, IF o.status = 200 THEN o.body ELSE FailureRecord(upload, o))

\* lines 181-195: the loop runs from image i until a call awaits the read of
\* its upload or the list is exhausted; a call rejected for its content type
\* raises before it awaits anything
RECURSIVE BatchLoop(_, _, _, _)
BatchLoop(imgs, i, res, ys) ==
    IF i > Len(imgs)
    THEN [ pc |-> "done", idx |-> i, results |-> res, yields |-> ys ]
    ELSE IF TypeCheck(imgs[i])
    THEN [ pc |-> "reading", idx |-> i, results |-> res, yields |-> ys ]
    ELSE BatchLoop(imgs, i + 1, BatchAppend(res, imgs[i], Rejected(imgs[i])),
                   Append(ys, Rejected(imgs[i])))

(***************************************************************************)
(* State machine                                                           *)
(***************************************************************************)
NoUpload == [ bytes |-> 0, content_type |-> "", filename |-> "" ]
NoOutcome == [ status |-> 0, log |-> <<>> ]
NoStats == << >>
NoCall == [ op |-> "" ]

\* the lists of n images that a client of the batch endpoint sends
BatchInputs(n) == IF n <= budget THEN [1 .. n -> Uploads] ELSE {}

Keys(cache) == { cache[i].key : i \in 1 .. Len(cache) }

\* the bodies returned by the calls that stored the entries of cache', after
\* a call for upload ended with outcome o
Served(cache, upload, o) ==
    [ k \in Keys(cache) |->
        IF k = generate_image_hash(upload.bytes) /\ "put" \in Range(o.log)
        THEN o.body ELSE served[k] ]

\* mutant of LoopBusy: the OCR call is awaited, the event loop runs other
\* handlers while it is pending
LoopBusyNever == FALSE

\* line 97: vision_client.document_text_detection(...) is a synchronous call
\* made on the event loop (no await, no executor): while a handler is inside
\* it the loop runs no other handler
LoopBusy == \E q \in Procs : pc[q] = "ocr"

\* the loop is free and no handler has a response to send.  extract_text_endpoint builds the
\* JSONResponse without an await after extract_text returns, and so does
\* batch_extract_text after its loop: the response is rendered in the slice
\* of the event loop that ended the handler, before any other handler runs.
Quiet ==
    /\ ~ LoopBusy
    /\ \A q \in Procs : pc[q] # "done"
    /\ stats = NoStats

Init ==
    /\ now = 0
    /\ vision_client \in BOOLEAN
    /\ ocr_cache = <<>>
    /\ pc = [p \in Procs |-> "idle"]
    /\ image = [p \in Procs |-> NoUpload]
    /\ start_time = [p \in Procs |-> 0]
    /\ out = [p \in Procs |-> NoOutcome]
    /\ images = <<>>
    /\ idx = 0
    /\ results = <<>>
    /\ yields = <<>>
    /\ served = <<>>
    /\ budget = MaxRequests
    /\ stats = NoStats
    /\ annotation = NoDocument
    /\ scores = <<>>
    /\ cache_call = NoCall
    /\ recency = <<>>

\* POST /extract-text: extract_text up to "await image.read()"
Receive(p, upload) ==
    /\ Quiet
    /\ pc[p] = "idle"
    /\ budget > 0
    /\ budget' = budget - 1
    /\ image' = [image EXCEPT ![p] = upload]
    /\ start_time' = [start_time EXCEPT ![p] = now]
    /\ IF TypeCheck(upload)
       THEN /\ pc' = [pc EXCEPT ![p] = "reading"]
            /\ out' = [out EXCEPT ![p] = NoOutcome]
       ELSE /\ pc' = [pc EXCEPT ![p] = "done"]
            /\ out' = [out EXCEPT ![p] = Rejected(upload)]
    /\ UNCHANGED << scorer, direct, stats, now, vision_client, ocr_cache, images, idx, results, yields,
                    served >>

\* lines 61-142: extract_text runs to its end; ocr is the answer of
\* document_text_detection when the call is made
EndCall(p, ocr) ==
    /\ \E r \in { AfterRead(ocr_cache, vision_client, image[p], start_time[p],
                          now, ocr) } :
           /\ ocr_cache' = r.cache
           /\ out' = [out EXCEPT ![p] = r.out]
           /\ served' = Served(r.cache, image[p], r.out)
    /\ pc' = [pc EXCEPT ![p] = "done"]
    /\ UNCHANGED << scorer, direct, stats, now, vision_client, image, start_time, images, idx, results,
                    yields, budget >>

\* POST /extract-text: extract_text from the return of image.read() to the
\* call of document_text_detection, or to its end when it returns or raises
\* before that (the answer is not consulted then)
Resume(p) ==
    /\ Quiet
    /\ pc[p] = "reading"
    /\ IF CallsOCR(ocr_cache, vision_client, image[p], now)
       THEN /\ pc' = [pc EXCEPT ![p] = "ocr"]
            /\ UNCHANGED << scorer, direct, stats, now, vision_client, ocr_cache, image,
                            start_time, out, images, idx, results, yields,
                            served, budget >>
       ELSE EndCall(p, Raised)

\* POST /extract-text: document_text_detection returns ocr or raises, and
\* extract_text runs to its end
OCRReturn(p, ocr) ==
    /\ pc[p] = "ocr"
    /\ EndCall(p, ocr)

\* POST /extract-text: JSONResponse(content=result) leaves the handler, or the
\* HTTPException does; the locals of the call are gone
Respond(p) ==
    /\ pc[p] = "done"
    /\ pc' = [pc EXCEPT ![p] = "idle"]
    /\ image' = [image EXCEPT ![p] = NoUpload]
    /\ start_time' = [start_time EXCEPT ![p] = 0]
    /\ out' = [out EXCEPT ![p] = NoOutcome]
    /\ UNCHANGED << scorer, direct, stats, now, vision_client, ocr_cache, images, idx, results, yields,
                    served, budget >>

\* the state of the batch coroutine after the loop ran on from image i
BatchContinue(imgs, i, res, ys) ==
    LET b == BatchLoop(imgs, i, res, ys)
    IN  /\ pc' = [pc EXCEPT ![Batch] = b.pc]
        /\ idx' = b.idx
        /\ results' = b.results
        /\ yields' = b.yields
        /\ image' = [image EXCEPT ![Batch] =
                        IF b.pc = "reading" THEN imgs[b.idx] ELSE image[Batch]]
        /\ start_time' = [start_time EXCEPT ![Batch] = now]

\* POST /batch-extract-text: up to the first "await image.read()"
BatchReceive(imgs) ==
    /\ Quiet
    /\ pc[Batch] = "idle"
    /\ budget >= Len(imgs)
    /\ budget' = budget - Len(imgs)
    /\ images' = imgs
    /\ out' = [out EXCEPT ![Batch] = NoOutcome]
    /\ BatchContinue(imgs, 1, <<>>, <<>>)
    /\ UNCHANGED << scorer, direct, stats, now, vision_client, ocr_cache, served >>

\* lines 181-195: the extract_text call of image idx runs to its end and the
\* loop goes on to the next await or to the return of the handler
BatchEndCall(ocr) ==
    /\ \E r \in { AfterRead(ocr_cache, vision_client, image[Batch],
                          start_time[Batch], now, ocr) } :
           /\ ocr_cache' = r.cache
           /\ out' = [out EXCEPT ![Batch] = r.out]
           /\ served' = Served(r.cache, image[Batch], r.out)
           /\ BatchContinue(images, idx + 1,
                            BatchAppend(results, images[idx], r.out),
                            Append(yields, r.out))
    /\ UNCHANGED << scorer, direct, stats, now, vision_client, images, budget >>

\* POST /batch-extract-text: from the return of image.read() of image idx to
\* the call of document_text_detection, or on to the next await or the
\* return of the handler when the call of image idx ends before that
BatchResume ==
    /\ Quiet
    /\ pc[Batch] = "reading"
    /\ IF CallsOCR(ocr_cache, vision_client, image[Batch], now)
       THEN /\ pc' = [pc EXCEPT ![Batch] = "ocr"]
            /\ UNCHANGED << scorer, direct, stats, now, vision_client, ocr_cache, image,
                            start_time, out, images, idx, results, yields,
                            served, budget >>
       ELSE BatchEndCall(Raised)

\* POST /batch-extract-text: document_text_detection returns ocr or raises
\* for image idx, and the handler runs on to the next await or to its return
BatchOCRReturn(ocr) ==
    /\ pc[Batch] = "ocr"
    /\ BatchEndCall(ocr)

\* POST /batch-extract-text: JSONResponse(content={"results": results})
\* leaves the handler; the locals of the call are gone
BatchRespond ==
    /\ pc[Batch] = "done"
    /\ pc' = [pc EXCEPT ![Batch] = "idle"]
    /\ image' = [image EXCEPT ![Batch] = NoUpload]
    /\ start_time' = [start_time EXCEPT ![Batch] = 0]
    /\ out' = [out EXCEPT ![Batch] = NoOutcome]
    /\ images' = <<>>
    /\ idx' = 0
    /\ results' = <<>>
    /\ yields' = <<>>
    /\ UNCHANGED << scorer, direct, stats, now, vision_client, ocr_cache, served, budget >>

\* GET /cache-stats: get_cache_statistics calls get_cache_stats
GetCacheStats ==
    /\ Quiet
    /\ LET r == get_cache_stats(ocr_cache, now)
       IN  /\ stats' = r.stats
           /\ ocr_cache' = r.cache
    /\ served' = [ k \in Keys(ocr_cache') |-> served[k] ]
    /\ UNCHANGED << scorer, direct, now, vision_client, pc, image, start_time, out, images, idx,
                    results, yields, budget >>

\* GET /cache-stats: JSONResponse(content={"cache_statistics": stats, ...})
\* leaves the handler
StatsRespond ==
    /\ stats # NoStats
    /\ stats' = NoStats
    /\ UNCHANGED << scorer, direct, now, vision_client, ocr_cache, pc, image, start_time, out,
                    images, idx, results, yields, served, budget >>

\* time passes: between two requests, while a handler awaits the read of its
\* upload, and inside document_text_detection.  A handler that has its
\* response sends it in the slice of the event loop that produced it.
Tick ==
    /\ now + TimeStep <= MaxClock
    /\ \A p \in Procs : pc[p] # "done"
    /\ stats = NoStats
    /\ now' = now + TimeStep
    /\ UNCHANGED << scorer, direct, vision_client, ocr_cache, pc, image, start_time, out,
                    images, idx, results, yields, served, budget, stats >>

Next ==
    \/ \E p \in Singles, upload \in Uploads : Receive(p, upload)
    \/ \E p \in Singles : Resume(p)
    \/ \E p \in Singles : \E ocr \in OCRAnswers(image[p].bytes) : OCRReturn(p, ocr)
    \/ \E p \in Singles : Respond(p)
    \/ \E n \in 1 .. MaxBatch : \E imgs \in BatchInputs(n) : BatchReceive(imgs)
    \/ BatchResume
    \/ \E ocr \in OCRAnswers(image[Batch].bytes) : BatchOCRReturn(ocr)
    \/ BatchRespond
    \/ GetCacheStats
    \/ StatsRespond
    \/ Tick

Spec == Init /\ [][Next]_vars

(***************************************************************************)
(* The confidence scorer on its own                                        *)
(***************************************************************************)
ScoreInit ==
    /\ now = 0
    /\ vision_client = TRUE
    /\ ocr_cache = <<>>
    /\ pc = [p \in Procs |-> "idle"]
    /\ image = [p \in Procs |-> NoUpload]
    /\ start_time = [p \in Procs |-> 0]
    /\ out = [p \in Procs |-> NoOutcome]
    /\ images = <<>>
    /\ idx = 0
    /\ results = <<>>
    /\ yields = <<>>
    /\ served = <<>>
    /\ budget = 0
    /\ stats = NoStats
    /\ annotation \in Documents
    /\ scores = <<>>
    /\ cache_call = NoCall
    /\ recency = <<>>

\* score = get_confidence_score(texts), called at most twice for a document
ScoreCall ==
    /\ Len(scores) < 2
    /\ scores' = Append(scores, get_confidence_score(annotation))
    /\ UNCHANGED << gateway, annotation, direct >>

ScoreNext == ScoreCall

ScoreSpec == ScoreInit /\ [][ScoreNext]_vars

(***************************************************************************)
(* The result cache on its own: direct calls of get_cached_result and      *)
(* cache_result                                                            *)
(***************************************************************************)
\* the result that extract_text assembles for each of the contents
CacheResults ==
    [ b \in Contents |->
        AssembleResult(Document(b), get_confidence_score(Document(b)), 0,
                       get_image_metadata("a.png", "image/png", b)) ]

CacheResult(b) == CacheResults[b]

\* recency after key was used, for the keys that cache holds
Used(key, cache) ==
    SelectSeq(recency, LAMBDA k : k # key /\ k \in Keys(cache))
        \o (IF key \in Keys(cache) THEN << key >> ELSE <<>>)

CacheInit ==
    /\ now = 0
    /\ vision_client = TRUE
    /\ ocr_cache = <<>>
    /\ pc = [p \in Procs |-> "idle"]
    /\ image = [p \in Procs |-> NoUpload]
    /\ start_time = [p \in Procs |-> 0]
    /\ out = [p \in Procs |-> NoOutcome]
    /\ images = <<>>
    /\ idx = 0
    /\ results = <<>>
    /\ yields = <<>>
    /\ served = <<>>
    /\ budget = 0
    /\ stats = NoStats
    /\ annotation = NoDocument
    /\ scores = <<>>
    /\ cache_call = NoCall
    /\ recency = <<>>

\* cache_result(generate_image_hash(b), result)
CachePut(b) ==
    LET key == generate_image_hash(b)
        live == Expire(ocr_cache, now)
    IN  /\ ocr_cache' = cache_result(ocr_cache, key, CacheResult(b), now)
        /\ cache_call' =
              [ op |-> "cache_result", key |-> key,
                evicted |-> { e \in Range(live) :
                                 e.key # key /\ e.key \notin Keys(ocr_cache') } ]
        /\ recency' = Used(key, ocr_cache')
        /\ UNCHANGED << now, vision_client, pc, image, start_time, out, images,
                        idx, results, yields, served, budget, stats, scorer >>

\* get_cached_result(generate_image_hash(b))
CacheGet(b) ==
    LET key == generate_image_hash(b)
        r == get_cached_result(ocr_cache, key, now)
    IN  /\ ocr_cache' = r.cache
        /\ cache_call' = [ op |-> "get_cached_result", key |-> key,
                           found |-> r.found ]
        /\ recency' = IF r.found THEN Used(key, ocr_cache') ELSE recency
        /\ UNCHANGED << now, vision_client, pc, image, start_time, out, images,
                        idx, results, yields, served, budget, stats, scorer >>

\* time passes between two calls
CacheTick ==
    /\ now + TimeStep <= MaxClock
    /\ now' = now + TimeStep
    /\ cache_call' = NoCall
    /\ UNCHANGED << vision_client, ocr_cache, pc, image, start_time, out,
                    images, idx, results, yields, served, budget, stats,
                    scorer, recency >>

CacheNext ==
    \/ \E b \in Contents : CachePut(b)
    \/ \E b \in Contents : CacheGet(b)
    \/ CacheTick

CacheSpec == CacheInit /\ [][CacheNext]_vars

(***************************************************************************)
(* Vocabulary of the claims                                                *)
(***************************************************************************)
\* the fields of a response of the miss path
ResponseFields ==
    { "success", "text", "confidence", "processing_time_ms", "metadata" }

Restrict(dict, fields) == [ f \in fields |-> dict[f] ]

Steps(o) == Range(o.log)

KeyOf(p) == generate_image_hash(image[p].bytes)

\* the step ends the extract_text call that p was reading the upload of;
\* out'[p] is then the outcome of that call
Resumed(p) ==
    /\ pc[p] \in {"reading", "ocr"}
    /\ IF p = Batch THEN idx' # idx ELSE pc'[p] = "done"

\* the entries of cache that hold key k
EntriesOf(cache, k) == { i \in 1 .. Len(cache) : cache[i].key = k }

\* C1: a request for bytes whose entry, stored by an earlier request that
\* returned 200, is resident and younger than the TTL is a hit: it returns 200
\* without calling the OCR collaborator, and its success, text, confidence,
\* processing_time_ms and metadata are those of the response of the request
\* that stored the entry.
C1_HitReturnsFirstResponse ==
    [][ \A p \in Procs :
          ( /\ Resumed(p)
            /\ \E i \in EntriesOf(ocr_cache, KeyOf(p)) :
                   now < ocr_cache[i].value.cached_at + ttl )
          => /\ out'[p].status = 200
             /\ "hit" \in Steps(out'[p])
             /\ "ocr" \notin Steps(out'[p])
             /\ Restrict(out'[p].body, ResponseFields) = served[KeyOf(p)]
      ]_vars

\* a single request was served from an entry stored before the request began
C1_Witness ==
    \E p \in Singles :
        /\ pc[p] = "done"
        /\ "hit" \in Steps(out[p])
        /\ out[p].body.cached_at < start_time[p]

\* C2: the body of every response served from the cache has exactly the
\* fields of a miss-path response: neither cached_at nor cache_hit.
C2_HitResponseStripped ==
    /\ \A p \in Procs :
          "hit" \in Steps(out[p]) => DOMAIN out[p].body = ResponseFields
    /\ \A i \in 1 .. Len(yields) :
          "hit" \in Steps(yields[i]) => DOMAIN yields[i].body = ResponseFields

\* C3: an entry stored at time T is not returned at any time >= T + ttl: a
\* hit returns a value stored less than ttl seconds ago, and a request that
\* finds an entry of its key as old as ttl or older takes the miss path and
\* calls the OCR collaborator again.
C3_ExpiredEntryIsAbsent ==
    [][ \A p \in Procs :
          Resumed(p) =>
            /\ "hit" \in Steps(out'[p]) => now < out'[p].body.cached_at + ttl
            /\ ( \E i \in EntriesOf(ocr_cache, KeyOf(p)) :
                     now >= ocr_cache[i].value.cached_at + ttl )
               => /\ "hit" \notin Steps(out'[p])
                  /\ "ocr" \in Steps(out'[p])
      ]_vars

\* a request found the expired entry of its key and ran the OCR call again
C3_Witness ==
    \E p \in Procs :
        /\ "expired" \in Steps(out[p])
        /\ "ocr" \in Steps(out[p])
        /\ out[p].status = 200

\* C4: the cache never holds more than maxsize entries.
C4_CapacityBound == Len(ocr_cache) <= maxsize

\* a store into the full cache evicted an entry, and the cache is full
C4_Witness ==
    /\ Len(ocr_cache) = maxsize
    /\ \E p \in Procs : "popitem" \in Steps(out[p])

\* C5: the expiry time of an entry is its insertion time plus ttl, and a
\* cache hit leaves the expiry time of every entry as it was.
C5_AbsoluteTTL ==
    [][ /\ \A i \in 1 .. Len(ocr_cache') :
              ocr_cache'[i].expires = ocr_cache'[i].value.cached_at + ttl
        /\ \A p \in Procs :
              (Resumed(p) /\ "hit" \in Steps(out'[p])) =>
                  /\ Keys(ocr_cache') = Keys(ocr_cache)
                  /\ \A i \in 1 .. Len(ocr_cache), j \in 1 .. Len(ocr_cache') :
                        ocr_cache[i].key = ocr_cache'[j].key =>
                            ocr_cache'[j].expires = ocr_cache[i].expires
      ]_vars

\* an entry was hit later than it was inserted and is still in the cache
C5_Witness ==
    \E p \in Procs :
        /\ "hit" \in Steps(out[p])
        /\ out[p].body.cached_at < start_time[p]
        /\ \E i \in 1 .. Len(ocr_cache) :
              /\ ocr_cache[i].key = KeyOf(p)
              /\ "cache_hit" \notin DOMAIN ocr_cache[i].value

\* C6: a request with an unsupported content type ends with 415 having done
\* nothing but the type check (no read, no hash, no cache lookup, no OCR
\* call, no store); no call reads its upload with such a type, and the part
\* of a call that precedes the read leaves the cache as it was.
C6_RejectedBeforeSideEffects ==
    [][ /\ \A p \in Singles :
              (pc'[p] = "done" /\ ~ TypeCheck(image'[p]))
              => /\ out'[p].status = 415
                 /\ out'[p].log = << "type_bad" >>
        /\ \A i \in 1 .. Len(yields') :
              images'[i].content_type \notin SUPPORTED_CONTENT_TYPES
              => /\ yields'[i].status = 415
                 /\ yields'[i].log = << "type_bad" >>
        /\ \A p \in Procs :
              pc'[p] = "reading" => image'[p].content_type \in SUPPORTED_CONTENT_TYPES
        /\ budget' < budget => (ocr_cache' = ocr_cache /\ served' = served)
      ]_vars

\* a request was rejected with 415 while the cache held an entry stored
\* before the request came
C6_Witness ==
    \E p \in Singles :
        /\ out[p].status = 415
        /\ image[p].content_type = "application/pdf"
        /\ \E i \in 1 .. Len(ocr_cache) :
              ocr_cache[i].value.cached_at < start_time[p]

\* the index of the first step of log that is one of steps, 0 if there is none
First(log, steps) ==
    IF \E i \in 1 .. Len(log) : log[i] \in steps
    THEN CHOOSE i \in 1 .. Len(log) :
             /\ log[i] \in steps
             /\ \A j \in 1 .. i - 1 : log[j] \notin steps
    ELSE 0

\* the call of outcome o for upload ran the OCR call only after the type
\* check, a cache miss, the size check and the client check, in this order
ValidatedBeforeOCR(o, upload) ==
    /\ "ocr" \in Steps(o) =>
          /\ upload.content_type \in SUPPORTED_CONTENT_TYPES
          /\ ContentLength(upload.bytes) <= MAX_FILE_SIZE
          /\ vision_client
          /\ "hit" \notin Steps(o)
          /\ Cardinality({ f \in 1 .. Len(o.log) : o.log[f] = "ocr" }) = 1
          /\ 0 < First(o.log, {"type_ok"})
          /\ First(o.log, {"type_ok"}) < First(o.log, {"miss", "expired"})
          /\ First(o.log, {"miss", "expired"}) < First(o.log, {"size_ok"})
          /\ First(o.log, {"size_ok"}) < First(o.log, {"client_ok"})
          /\ First(o.log, {"client_ok"}) < First(o.log, {"ocr"})
    /\ o.status \in {415, 413, 503} => "ocr" \notin Steps(o)
    /\ "hit" \in Steps(o) => "ocr" \notin Steps(o)
    /\ ( /\ o.status # 0
         /\ upload.content_type \in SUPPORTED_CONTENT_TYPES
         /\ "hit" \notin Steps(o) )
       => /\ ContentLength(upload.bytes) > MAX_FILE_SIZE => o.status = 413
          /\ (ContentLength(upload.bytes) <= MAX_FILE_SIZE /\ ~ vision_client)
                => o.status = 503

\* C7: the OCR collaborator is called only by a request that passed the
\* content type check, missed the cache, is not larger than MAX_FILE_SIZE
\* (else 413) and found the client available (else 503), in this order.
C7_OCROnlyAfterValidation ==
    /\ \A p \in Singles : pc[p] = "done" => ValidatedBeforeOCR(out[p], image[p])
    /\ \A i \in 1 .. Len(yields) : ValidatedBeforeOCR(yields[i], images[i])

\* a request ran the OCR call and a request of the batch was refused with 413
C7_Witness ==
    /\ \E p \in Singles : "ocr" \in Steps(out[p])
    /\ \E i \in 1 .. Len(yields) : yields[i].status = 413

\* entry j of the cache after the step was written by the step
Written(j) ==
    ~ \E i \in 1 .. Len(ocr_cache) :
          /\ ocr_cache[i].key = ocr_cache'[j].key
          /\ ocr_cache[i].expires = ocr_cache'[j].expires
          /\ Restrict(ocr_cache[i].value, ResponseFields \cup {"cached_at"})
               = Restrict(ocr_cache'[j].value, ResponseFields \cup {"cached_at"})

\* C8: a request that ends with 415, 413, 503 or 500 leaves the cache as it
\* was, and an entry is written only by a request that missed the cache, ran
\* the OCR call and returns 200, under the key of its own bytes.
C8_FailuresNotCached ==
    [][ /\ \A p \in Procs :
              Resumed(p) =>
                  /\ out'[p].status \in {200, 413, 503, 500}
                  /\ out'[p].status # 200 => ocr_cache' = ocr_cache
        /\ budget' < budget => ocr_cache' = ocr_cache
        /\ \A j \in 1 .. Len(ocr_cache') :
              Written(j) =>
                  \E p \in Procs :
                      /\ Resumed(p)
                      /\ out'[p].status = 200
                      /\ "ocr" \in Steps(out'[p])
                      /\ "hit" \notin Steps(out'[p])
                      /\ ocr_cache'[j].key = KeyOf(p)
      ]_vars

\* a request ended with 500 on an engine error, its key is not in the cache
\* and the cache holds the entry of another image
C8_Witness ==
    \E p \in Singles :
        /\ out[p].status = 500
        /\ "vision_error" \in Steps(out[p])
        /\ KeyOf(p) \notin Keys(ocr_cache)
        /\ Len(ocr_cache) > 0

\* the step ends with 200 a call for bytes in which the engine finds no text;
\* the body has the given text, success=false and confidence 0, a miss stores
\* it under the key of the bytes and a hit returns what the miss returned
NoTextOutcome(p, text) ==
    ( /\ Resumed(p)
      /\ out'[p].status = 200
      /\ Document(image[p].bytes).text = <<>> )
    => /\ out'[p].body.success = FALSE
       /\ out'[p].body.text = text
       /\ out'[p].body.confidence = 0
       /\ "hit" \notin Steps(out'[p]) =>
             /\ "put" \in Steps(out'[p])
             /\ \E j \in EntriesOf(ocr_cache', KeyOf(p)) :
                   Restrict(ocr_cache'[j].value, ResponseFields) = out'[p].body
       /\ "hit" \in Steps(out'[p]) =>
             Restrict(out'[p].body, ResponseFields) = served[KeyOf(p)]

\* C9 as amended: a document with empty text and no engine error gives a
\* result with success=false, the text "No text found in the image." and
\* confidence 0, which is stored under the content hash and returned with
\* 200; a repeat of the bytes within the TTL is a hit with the same result.
C9_NoTextResultCached == [][ \A p \in Procs : NoTextOutcome(p, NoTextMessage) ]_vars

\* C9 as stated: the text of the no-text result is the empty string.
C9_NoTextResultHasEmptyText == [][ \A p \in Procs : NoTextOutcome(p, <<>>) ]_vars

\* a repeat of bytes without text was served the negative result from the cache
C9_Witness ==
    \E p \in Singles :
        /\ "hit" \in Steps(out[p])
        /\ out[p].body.success = FALSE
        /\ out[p].body.text = NoTextMessage
        /\ Document(image[p].bytes).text = <<>>

\* C10: the batch appends one item per image in input order: item i is the
\* body that extract_text returned for image i, or, when the call raised
\* (415, 413, 503 or 500), a record with success=false and confidence 0.0
\* that names the image; the loop goes on after a failure, so that the
\* finished batch has as many results as images.
C10_BatchResultsPerImage ==
    /\ Len(results) = Len(yields)
    /\ Len(results) <= Len(images)
    /\ (pc[Batch] = "done" => Len(results) = Len(images) /\ Len(images) > 0)
    /\ (pc[Batch] = "idle" => images = <<>>)
    /\ (pc[Batch] = "reading" => Len(results) = idx - 1 /\ idx <= Len(images))
    /\ \A i \in 1 .. Len(results) :
          /\ yields[i].status \in {200, 415, 413, 503, 500}
          /\ yields[i].status = 200 =>
                /\ results[i] = yields[i].body
                /\ results[i].metadata =
                      get_image_metadata(images[i].filename,
                          images[i].content_type, images[i].bytes)
          /\ yields[i].status # 200 =>
                /\ results[i].success = FALSE
                /\ results[i].confidence = 0
                /\ results[i].text[2] = images[i].filename
                /\ results[i].text[3] = yields[i].detail
          /\ yields[i].status = 415 <=>
                images[i].content_type \notin SUPPORTED_CONTENT_TYPES

\* a finished batch of two images: the first failed, the second succeeded
C10_Witness ==
    /\ pc[Batch] = "done"
    /\ Len(images) = 2
    /\ Len(results) = 2
    /\ yields[1].status \in {413, 500}
    /\ results[1].success = FALSE
    /\ yields[2].status = 200
    /\ results[2].success = TRUE

\* the step is a call of get_cache_stats
StatsTaken == stats = NoStats /\ stats' # NoStats

\* C11 as amended: get_cache_stats leaves every entry whose TTL has not
\* elapsed as it was (key, value, expiry time, order), adds and changes
\* nothing, and removes only entries whose TTL has elapsed, which no lookup
\* returns; it reports the number of unexpired entries, the configured
\* maximum size and the configured TTL, and touches no request.
C11_StatsKeepsLiveEntries ==
    [][ StatsTaken =>
          /\ \A i \in 1 .. Len(ocr_cache) :
                now < ocr_cache[i].expires =>
                    \E j \in 1 .. Len(ocr_cache') : ocr_cache'[j] = ocr_cache[i]
          /\ \A j \in 1 .. Len(ocr_cache') :
                /\ now < ocr_cache'[j].expires
                /\ \E i \in 1 .. Len(ocr_cache) : ocr_cache[i] = ocr_cache'[j]
          /\ \A j, k \in 1 .. Len(ocr_cache') :
                j < k => Position(ocr_cache, ocr_cache'[j].key)
                           < Position(ocr_cache, ocr_cache'[k].key)
          /\ stats'.cache_size =
                Cardinality({ i \in 1 .. Len(ocr_cache) : now < ocr_cache[i].expires })
          /\ stats'.max_size = maxsize
          /\ stats'.ttl_seconds = ttl
          /\ UNCHANGED << pc, out, results, yields, now >>
      ]_vars

\* C11 as stated: get_cache_stats leaves the stored entries as they were
\* and reports their number, the maximum size and the TTL.
C11_StatsLeavesStore ==
    [][ StatsTaken =>
          /\ ocr_cache' = ocr_cache
          /\ stats'.cache_size = Len(ocr_cache)
          /\ stats'.max_size = maxsize
          /\ stats'.ttl_seconds = ttl
      ]_vars

\* the statistics were taken when entries stored at time 0 had expired, and
\* they count the entry stored later, which is still in the cache
C11_Witness ==
    /\ stats # NoStats
    /\ now >= ttl
    /\ stats.cache_size = 1
    /\ Len(ocr_cache) = 1
    /\ now < ocr_cache[1].expires

\* C12: while a request is inside the OCR call, a request for a different
\* image that has its upload read can take its next step (hash, lookup, its
\* own OCR call, store) without waiting for that OCR call to return.
C12_DifferentImagesDoNotBlock ==
    /\ \A p \in Singles :
          ( /\ pc[Batch] = "ocr"
            /\ pc[p] = "reading"
            /\ image[p].bytes # image[Batch].bytes )
          => ENABLED Resume(p)
    /\ \A p \in Singles :
          ( /\ pc[p] = "ocr"
            /\ pc[Batch] = "reading"
            /\ image[p].bytes # image[Batch].bytes )
          => ENABLED BatchResume

RECURSIVE SumSeq(_)
SumSeq(s) == IF s = <<>> THEN 0 ELSE Head(s) + SumSeq(Tail(s))

\* num / den rounded to the nearest integer, ties to even
RoundDiv(num, den) ==
    LET q == num \div den
        r == num % den
    IN  IF 2 * r > den THEN q + 1
        ELSE IF 2 * r = den THEN q + (q % 2)
        ELSE q

\* the heuristic of the claim: the mean of the confidences that the words
\* report (a reported 0.0 included), halved for a trimmed text shorter than
\* 10, times 1 - non_alpha_ratio, clamped to [0, 1], rounded to 5 decimals
SpecifiedScore(d) ==
    LET text == Strip(d.text)
        reported == SelectSeq(d.words, LAMBDA w : w # NoConfidence)
        n == Len(reported)
        half == IF Len(text) < 10 THEN 2 ELSE 1
        len == IF Len(text) > 1 THEN Len(text) ELSE 1
        symbols == Cardinality({ i \in 1 .. Len(text) : IsNonAlpha(text[i]) })
        num == SumSeq(reported) * (len - symbols)
        den == (IF n > 0 THEN n ELSE 1) * half * len
    IN  IF num <= 0 THEN 0
        ELSE IF num >= 100000 * den THEN 100000
        ELSE RoundDiv(num, den)

\* C13: for every document get_confidence_score returns the value of the
\* specified heuristic, in which a reported confidence of 0.0 counts toward
\* the mean and only the words without a confidence are skipped.
C13_ScoreIsSpecifiedHeuristic ==
    \A i \in 1 .. Len(scores) : scores[i] = SpecifiedScore(annotation)

\* the confidences of document that are not 0.0
NonZero(d) == SelectSeq(d.words, LAMBDA w : w > 0)

\* C14 as amended: for a document whose text is empty, get_confidence_score
\* returns half the mean of the word confidences it collects (those that are
\* not 0.0), rounded to 5 decimals, and 0.0 when it collects none.
C14_EmptyTextScoresHalfMean ==
    \A i \in 1 .. Len(scores) :
        annotation.text = <<>> =>
            LET n == Len(NonZero(annotation))
                sum == SumSeq(NonZero(annotation))
            IN  /\ n = 0 => scores[i] = 0
                /\ n > 0 => /\ 2 * n * scores[i] - sum <= n
                            /\ sum - 2 * n * scores[i] <= n

\* C14 as stated: for a document whose text is empty the score is 0.0
\* whatever the word confidences are.
C14_EmptyTextScoresZero ==
    \A i \in 1 .. Len(scores) : annotation.text = <<>> => scores[i] = 0

\* the document without text whose two words report 0.9 was scored 0.45
C14_Witness ==
    /\ annotation.text = <<>>
    /\ annotation.words = << 90000, 90000 >>
    /\ scores # <<>>
    /\ scores[1] = 45000

\* C15: every value get_confidence_score returns is in [0, 1]; a call
\* changes neither the document nor any other state, and a second call on
\* the same document returns the value of the first.
C15_ScoreBoundedAndPure ==
    [][ scores' # scores =>
          /\ annotation' = annotation
          /\ gateway' = gateway
          /\ \A i \in 1 .. Len(scores') :
                /\ 0 <= scores'[i]
                /\ scores'[i] <= 100000
                /\ scores'[i] = scores'[1]
      ]_vars

\* a text of symbols only, with words of confidence 1.0, was scored twice
C15_Witness ==
    /\ Len(scores) = 2
    /\ annotation.text = << 35, 35, 35 >>
    /\ annotation.words = << 100000, 100000, 100000 >>
    /\ scores[1] = 0

\* the step is a direct call of cache_result
PutCalled == cache_call'.op = "cache_result" /\ now' = now

\* the entries that have not expired when the step is taken
Live == Expire(ocr_cache, now)

\* the unexpired entries of other keys that the call of cache_result removed
Evicted ==
    { e \in Range(Live) :
        e.key # cache_call'.key /\ e.key \notin Keys(ocr_cache') }

\* the call of cache_result stored the result under its key, stamped with
\* the time of the call, exactly once, and left every unexpired entry of
\* another key that it did not evict as it was
StoredAndOthersKept ==
    /\ \E j \in 1 .. Len(ocr_cache') :
          /\ ocr_cache'[j].key = cache_call'.key
          /\ Restrict(ocr_cache'[j].value, ResponseFields)
                = CacheResult(cache_call'.key[2])
          /\ ocr_cache'[j].value.cached_at = now
          /\ ocr_cache'[j].expires = now + ttl
    /\ Cardinality(Keys(ocr_cache')) = Len(ocr_cache')
    /\ \A e \in Range(Live) :
          (e.key # cache_call'.key /\ e \notin Evicted) => e \in Range(ocr_cache')
    /\ cache_call'.key \in Keys(Live) => Evicted = {}

\* C16 as amended: when the cache holds maxsize unexpired entries and
\* cache_result is called with a key that is not resident, exactly one entry
\* is evicted: the least recently used one, where a store and a hit are
\* uses (the oldest insertion only among entries that were not hit since);
\* the new key is resident afterwards and all other entries are untouched;
\* when the key is resident, no other entry is evicted and the value is
\* overwritten.
C16_EvictsLeastRecentlyUsed ==
    [][ PutCalled =>
          /\ StoredAndOthersKept
          /\ (Len(Live) = maxsize /\ cache_call'.key \notin Keys(Live)) =>
                /\ Cardinality(Evicted) = 1
                /\ \A e \in Evicted :
                      e.key = SelectSeq(recency, LAMBDA k : k \in Keys(Live))[1]
      ]_vars

\* C16 as stated: the entry evicted is the one inserted first.
C16_EvictsOldestInsertion ==
    [][ PutCalled =>
          /\ StoredAndOthersKept
          /\ (Len(Live) = maxsize /\ cache_call'.key \notin Keys(Live)) =>
                /\ Cardinality(Evicted) = 1
                /\ \A e \in Evicted : \A f \in Range(Live) :
                      e.value.cached_at <= f.value.cached_at
      ]_vars

\* a store into the full cache evicted an entry that was inserted later than
\* an entry that stayed (the older one was hit in between)
C16_Witness ==
    /\ cache_call.op = "cache_result"
    /\ Len(ocr_cache) = maxsize
    /\ \E e \in cache_call.evicted : \E i \in 1 .. Len(ocr_cache) :
          ocr_cache[i].value.cached_at < e.value.cached_at

\* the cache holds an entry of key k that has not expired
Resident(k) ==
    \E i \in EntriesOf(ocr_cache, k) : now < ocr_cache[i].expires

\* C17: from the return of the read of its upload a call runs to its end
\* with no step of another request in between: while a call is inside the
\* OCR call only the clock moves and the cache stays as it is, at most one
\* call is inside the OCR call, a call enters the OCR call only when the
\* cache holds no unexpired entry of its key, and a call that finds such an
\* entry ends without an OCR call.  So of two requests in flight with the
\* same bytes the second is a hit of the entry the first stored.
C17_SingleFlight ==
    [][ /\ \A p \in Procs :
              pc[p] = "ocr" =>
                  /\ \A q \in Procs \ {p} : pc'[q] = pc[q] /\ image'[q] = image[q]
                  /\ UNCHANGED << budget, stats >>
                  /\ pc'[p] = "ocr" => UNCHANGED ocr_cache
        /\ \A p \in Procs :
              (pc[p] = "reading" /\ pc'[p] = "ocr") =>
                  /\ ~ Resident(KeyOf(p))
                  /\ UNCHANGED ocr_cache
        /\ \A p \in Procs :
              (Resumed(p) /\ Resident(KeyOf(p))) =>
                  /\ "ocr" \notin Steps(out'[p])
                  /\ "hit" \in Steps(out'[p])
        /\ \A p \in Procs : \A q \in Procs \ {p} :
              ~ (pc'[p] = "ocr" /\ pc'[q] = "ocr")
      ]_vars

\* two requests with the same bytes are in flight: one has run the OCR call
\* and stored the result, the other has its upload read and the entry is
\* in the cache
C17_Witness ==
    \E p \in Procs, q \in Procs :
        /\ p # q
        /\ pc[p] = "done"
        /\ out[p].status = 200
        /\ "ocr" \in Steps(out[p])
        /\ pc[q] = "reading"
        /\ image[q].bytes = image[p].bytes
        /\ Resident(KeyOf(q))

\* C18: a call served from the cache leaves the cache as it was: the keys,
\* the stored value of every entry with all its fields (cached_at and
\* cache_hit included), and every expiry time.
C18_HitLeavesCacheUnchanged ==
    [][ \A p \in Procs :
          (Resumed(p) /\ "hit" \in Steps(out'[p])) =>
              /\ Keys(ocr_cache') = Keys(ocr_cache)
              /\ \A i \in 1 .. Len(ocr_cache), j \in 1 .. Len(ocr_cache') :
                    ocr_cache[i].key = ocr_cache'[j].key =>
                        /\ ocr_cache'[j].value = ocr_cache[i].value
                        /\ ocr_cache'[j].expires = ocr_cache[i].expires
      ]_vars

\* C19: every result that extract_text returns or caches with success=true
\* has a non-empty text, whatever raw text the engine returned.
C19_SuccessHasText ==
    /\ \A p \in Procs :
          (out[p].status = 200 /\ out[p].body.success) => out[p].body.text # <<>>
    /\ \A i \in 1 .. Len(yields) :
          (yields[i].status = 200 /\ yields[i].body.success)
              => yields[i].body.text # <<>>
    /\ \A i \in 1 .. Len(ocr_cache) :
          ocr_cache[i].value.success => ocr_cache[i].value.text # <<>>

=============================================================================
